---- MODULE Spec2Model ----
(***************************************************************************)
(* A model of the audio capture wrapper of src/audio/audio_wrapper.h: the  *)
(* ring buffer (ring_buffer_t), the device handle (struct audio_device),   *)
(* the RtAudio callback bridge and the public audio_* operations.          *)
(*                                                                         *)
(* Three specifications share the variables:                               *)
(*   SeqSpec  ring_buffer_write / ring_buffer_read called one at a time;   *)
(*   DevSpec  the audio_* operations and audio_callback, each one atomic;  *)
(*   ConcSpec one audio_callback and one audio_read_samples interleaved    *)
(*            at the loads and stores of the ring buffer's fields;         *)
(*   CapSpec  the recorder programs src/audio/microphone.c and             *)
(*            src/microphone.cpp, which do not use the wrapper.            *)
(***************************************************************************)
EXTENDS Integers, Sequences, FiniteSets, TLC

VARIABLES
    capacity,       \* RING_BUFFER_SIZE, the length of ring_buffer_t.data
    ringBuffer,     \* ring_buffer_t: [data, writePos, readPos, available]
    handle,         \* the audio_device_t*: "none" (not created), "live", "freed"
    channels,       \* audio_device.channels
    errorMsg,       \* audio_device.errorMsg ("" is errorMsg[0] = '\0')
    stream,         \* the RtAudio stream behind audio_device.handle
    started,        \* history: some audio_start_recording has succeeded
    crashed,        \* the process was killed by a trap (SIGFPE)
    last,           \* history: the last call, its arguments, result and pre-state
    accepted,       \* history: every sample a write stored, in order
    returned,       \* history: every sample a read copied out, in order
    offered,        \* history: number of samples handed to a write
    dropped,        \* history: number of samples a write did not store
    script,         \* history: how far the calls so far follow Scenario
    wr,             \* audio thread: position and locals of audio_callback
    rd,             \* application thread: position and locals of audio_read_samples
    capture         \* the recorder programs: InputData and the last input_callback

vars == <<capacity, ringBuffer, handle, channels, errorMsg, stream, started,
          crashed, last, accepted, returned, offered, dropped, script, wr, rd,
          capture>>

(***************************************************************************)
(* Bounds of the model.                                                    *)
(***************************************************************************)
\* RING_BUFFER_SIZE is the macro 48000 * 10, without parentheses: SmallRate
\* stands for its first factor and SmallSeconds for its second.
SmallRate == 1
SmallSeconds == 3
\* The length of ring_buffer_t.data in the exhaustive runs (480000 in the source).
SmallCapacity == SmallRate * SmallSeconds
\* The longest block one ring_buffer_write is handed, and the largest read request.
MaxBlock == 4
\* The total number of samples handed to writes in one behaviour.
MaxOffered == 6
\* unsigned int is modelled as the integers modulo UIntModulus (2^32 in the source).
UIntModulus == 16
\* The largest channel count and frame count the backend is asked for.
MaxChannels == 2
MaxFrames == 2
\* The total number of samples the backend delivers to audio_callback.
MaxDelivered == 3
\* The recorder programs: the block size they ask for (512 in the source),
\* the largest block size the backend settles on, and the longest recording.
RequestedFrames == 2
MaxStreamFrames == 3
MaxTotalFrames == 5
\* sizeof(sample_t), sizeof(MY_TYPE): both int16_t.
SampleBytes == 2

(***************************************************************************)
(* Error codes.                                                            *)
(***************************************************************************)
AUDIO_OK == 0
AUDIO_ERROR == -1
AUDIO_NO_DEVICES == -2
AUDIO_INVALID_PARAM == -3

Min(a, b) == IF a < b THEN a ELSE b

\* The values an uninitialised or out-of-bounds int16_t may hold.
Garbage == {0, -1}

\* unsigned int arithmetic.
UMul(a, b) == (a * b) % UIntModulus
UInc(a) == (a + 1) % UIntModulus
UDec(a) == (a + UIntModulus - 1) % UIntModulus

(***************************************************************************)
(* ring_buffer_t                                                           *)
(***************************************************************************)
\* x % RING_BUFFER_SIZE as the compiler reads it: the macro is replaced by
\* its text, which gives x % 48000 * 10, that is (x % 48000) * 10.
\* In the source a cursor so advanced runs through 0, 10, 110, 1110, 11110,
\* 111110, 151110 and then cycles through 71110, 231110, 391110; here, with
\* SmallRate = 1, it stays at 0, and with SmallRate = 2 it goes to the middle
\* of data and stays there.
ModRingBufferSize(x) == (x % SmallRate) * (capacity \div SmallRate)

ring_buffer_init(g) ==
    [data |-> [i \in 0 .. capacity - 1 |-> g],
     writePos |-> 0, readPos |-> 0, available |-> 0]

RECURSIVE write_loop(_, _, _, _)
write_loop(rb, data, samples, written) ==
    IF written < samples /\ rb.available < capacity
    THEN write_loop([rb EXCEPT !.data[rb.writePos] = data[written + 1],
                               !.writePos = ModRingBufferSize(rb.writePos + 1),
                               !.available = UInc(rb.available)],
                    data, samples, written + 1)
    ELSE [rb |-> rb, ret |-> written]

\* The loop tests available <= RING_BUFFER_SIZE: one sample too many fits.
RECURSIVE write_loop_offbyone(_, _, _, _)
write_loop_offbyone(rb, data, samples, written) ==
    IF written < samples /\ rb.available <= capacity
    THEN write_loop_offbyone(
             [rb EXCEPT !.data[rb.writePos] = data[written + 1],
                        !.writePos = ModRingBufferSize(rb.writePos + 1),
                        !.available = UInc(rb.available)],
             data, samples, written + 1)
    ELSE [rb |-> rb, ret |-> written]

ring_buffer_write_offbyone(rb, data, samples) ==
    write_loop_offbyone(rb, data, samples, 0)

\* data[0 .. samples-1] is the caller's block; the result is the buffer after
\* the call and the count written.
ring_buffer_write(rb, data, samples) ==
    write_loop(rb, data, samples, 0)

RECURSIVE read_loop(_, _, _, _)
read_loop(rb, out, samples, read) ==
    IF read < samples /\ rb.available > 0
    THEN read_loop([rb EXCEPT !.readPos = ModRingBufferSize(rb.readPos + 1),
                              !.available = UDec(rb.available)],
                   Append(out, rb.data[rb.readPos]), samples, read + 1)
    ELSE [rb |-> rb, out |-> out, ret |-> read]

\* The loop lacks rb->available--.
RECURSIVE read_loop_nodec(_, _, _, _)
read_loop_nodec(rb, out, samples, read) ==
    IF read < samples /\ rb.available > 0
    THEN read_loop_nodec(
             [rb EXCEPT !.readPos = ModRingBufferSize(rb.readPos + 1)],
             Append(out, rb.data[rb.readPos]), samples, read + 1)
    ELSE [rb |-> rb, out |-> out, ret |-> read]

ring_buffer_read_nodec(rb, samples) == read_loop_nodec(rb, <<>>, samples, 0)

\* The result is the buffer after the call, the samples copied to the caller's
\* buffer (data[0 .. ret-1]) and their count.
ring_buffer_read(rb, samples) == read_loop(rb, <<>>, samples, 0)

\* The samples the next reads copy out of rb, `available` of them.
RECURSIVE ReadAhead(_, _, _)
ReadAhead(rb, pos, n) ==
    IF n = 0 THEN <<>>
    ELSE <<rb.data[pos]>> \o ReadAhead(rb, ModRingBufferSize(pos + 1), n - 1)

Unread(rb) == ReadAhead(rb, rb.readPos, rb.available)

(***************************************************************************)
(* The device handle and the backend stream.                               *)
(***************************************************************************)
NoStream == [open |-> FALSE, running |-> FALSE, channels |-> 0]

\* The lifecycle state of the handle (the source keeps no such field: it is
\* read off the handle and the backend's stream).
State ==
    IF handle = "none" THEN "None"
    ELSE IF handle = "freed" THEN "Destroyed"
    ELSE IF stream.open /\ stream.running THEN "StreamOpenAndRunning"
    ELSE IF stream.open THEN "StreamOpenNotRunning"
    ELSE IF started THEN "Stopped"
    ELSE "Created"

\* What a call can change, as it was before the call.
Snapshot ==
    [rb |-> ringBuffer, channels |-> channels, errorMsg |-> errorMsg,
     stream |-> stream, state |-> State]

\* The call before the last one: what it was handed and whether it found the
\* ring buffer empty.
NoBefore == [op |-> "none", blk |-> <<>>, ret |-> 0, empty |-> TRUE]

\* The arguments of a call; a call leaves those it does not take as they are here.
NoArgs == [buf |-> FALSE, n |-> 0, blk |-> <<>>, ch |-> 0, rate |-> 0]

\* The record of a call: a are its arguments, calls the backend calls it made.
Call(op, dev, a, ret, out, calls) ==
    [op |-> op, dev |-> dev, buf |-> a.buf, n |-> a.n, blk |-> a.blk,
     ch |-> a.ch, rate |-> a.rate,
     ret |-> ret, out |-> out, calls |-> calls, pre |-> Snapshot,
     before |-> [op |-> last.op, blk |-> last.blk, ret |-> last.ret,
                 empty |-> last.pre.rb.available = 0]]

WrIdle == [pc |-> "idle", data |-> <<>>, samples |-> 0, written |-> 0, tmp |-> 0]
RdIdle == [pc |-> "idle", out |-> <<>>, samples |-> 0, read |-> 0, tmp |-> 0,
           frames |-> 0]

\* audio_create, when malloc and rtaudio_create succeed; data is not initialised.
\* InputData of a recorder program that has not been started, with the
\* history of the last input_callback.
NoCapture ==
    [prog |-> "none", channels |-> 0, totalFrames |-> 0, bufferBytes |-> 0,
     frameCounter |-> 0, blockFrames |-> 0, running |-> FALSE, calls |-> 0,
     n |-> 0, before |-> 0, offset |-> 0, copied |-> 0, ret |-> 0]

Created(cap, g) ==
    /\ capacity = cap
    /\ ringBuffer = ring_buffer_init(g)
    /\ handle = "live"
    /\ channels = 0
    /\ errorMsg = ""
    /\ stream = NoStream
    /\ started = FALSE
    /\ crashed = FALSE
    /\ accepted = <<>>
    /\ returned = <<>>
    /\ offered = 0
    /\ dropped = 0
    /\ script = 0
    /\ wr = WrIdle
    /\ rd = RdIdle
    /\ capture = NoCapture
    /\ last = [op |-> "none", dev |-> "none", buf |-> FALSE, n |-> 0,
               blk |-> <<>>, ch |-> 0, rate |-> 0,
               ret |-> 0, out |-> <<>>, calls |-> <<>>,
               pre |-> [rb |-> ringBuffer, channels |-> 0, errorMsg |-> "",
                        stream |-> NoStream, state |-> "Created"],
               before |-> NoBefore]

(***************************************************************************)
(* SeqSpec: ring_buffer_write and ring_buffer_read, one call at a time.    *)
(* The buffer has SmallCapacity slots and is handed blocks of fresh        *)
(* samples (offered + 1, offered + 2, ...), or has 10 slots and is handed  *)
(* the blocks of the scenario of the specification's section 8.            *)
(***************************************************************************)
Scenario ==
    << [op |-> "write", blk |-> <<1, 2, 3>>, n |-> 3],
       [op |-> "read", blk |-> <<>>, n |-> 2],
       [op |-> "write", blk |-> <<4, 5, 6, 7, 8, 9, 10, 11, 12>>, n |-> 9],
       [op |-> "write", blk |-> <<99>>, n |-> 1],
       [op |-> "read", blk |-> <<>>, n |-> 10] >>

Follows(op, blk, n) ==
    IF /\ script >= 0
       /\ script < Len(Scenario)
       /\ Scenario[script + 1] = [op |-> op, blk |-> blk, n |-> n]
    THEN script + 1
    ELSE -1

Fresh(n) == [i \in 1 .. n |-> offered + i]

WriteBlocks ==
    IF capacity = SmallCapacity
    THEN {Fresh(n) : n \in 0 .. MaxBlock}
    ELSE {Scenario[i].blk : i \in {1, 3, 4}}

ReadSizes ==
    IF capacity = SmallCapacity THEN 0 .. MaxBlock ELSE {2, 10}

OfferLimit == IF capacity = SmallCapacity THEN MaxOffered ELSE 13

SeqInit ==
    \E cap \in {SmallCapacity, 10}, g \in Garbage : Created(cap, g)

DevUnchanged == UNCHANGED <<capacity, handle, channels, errorMsg, stream,
                            started, crashed, wr, rd, capture>>

WriteCall(blk) ==
    LET r == ring_buffer_write(ringBuffer, blk, Len(blk)) IN
    /\ offered + Len(blk) <= OfferLimit
    /\ ringBuffer' = r.rb
    /\ accepted' = accepted \o SubSeq(blk, 1, r.ret)
    /\ offered' = offered + Len(blk)
    /\ dropped' = dropped + (Len(blk) - r.ret)
    /\ last' = Call("write", "live",
                     [NoArgs EXCEPT !.buf = TRUE, !.n = Len(blk), !.blk = blk],
                     r.ret, <<>>, <<>>)
    /\ script' = Follows("write", blk, Len(blk))
    /\ UNCHANGED returned
    /\ DevUnchanged

ReadCall(n) ==
    LET r == ring_buffer_read(ringBuffer, n) IN
    /\ ringBuffer' = r.rb
    /\ returned' = returned \o r.out
    /\ last' = Call("read", "live", [NoArgs EXCEPT !.buf = TRUE, !.n = n],
                     r.ret, r.out, <<>>)
    /\ script' = Follows("read", <<>>, n)
    /\ UNCHANGED <<accepted, offered, dropped>>
    /\ DevUnchanged

SeqNext ==
    \/ \E blk \in WriteBlocks : WriteCall(blk)
    \/ \E n \in ReadSizes : ReadCall(n)

SeqSpec == SeqInit /\ [][SeqNext]_vars

(***************************************************************************)
(* Claims about the ring buffer, checked under SeqSpec.                    *)
(***************************************************************************)
IsPrefix(s, t) == Len(s) <= Len(t) /\ SubSeq(t, 1, Len(s)) = s

\* C1: after every ring_buffer_write and ring_buffer_read, run one at a time
\* on a buffer of capacity C, 0 <= available <= C.
C1_AvailableInRange ==
    /\ 0 <= ringBuffer.available
    /\ ringBuffer.available <= capacity

\* A write overflowed a buffer and left it full.
C1_Witness ==
    /\ last.op = "write"
    /\ last.ret < last.n
    /\ last.pre.rb.available > 0
    /\ ringBuffer.available = capacity

\* C2: FIFO order. The samples returned by reads are a prefix of the samples
\* accepted by writes, and what was accepted and not yet returned is what
\* lies unread in the buffer, in order; a read returns the oldest unread
\* samples; writing k <= C samples into an empty buffer and then reading k
\* returns those k samples; and the capacity-10 scenario gives the results
\* the specification lists.
C2_Fifo ==
    /\ IsPrefix(returned, accepted)
    /\ returned \o Unread(ringBuffer) = accepted
    /\ last.op = "read" =>
         /\ last.ret = Min(last.n, last.pre.rb.available)
         /\ last.out = SubSeq(Unread(last.pre.rb), 1, last.ret)
         /\ Unread(ringBuffer) =
                SubSeq(Unread(last.pre.rb), last.ret + 1, last.pre.rb.available)
    /\ ( /\ last.op = "read"
         /\ last.before.op = "write"
         /\ last.before.empty
         /\ Len(last.before.blk) <= capacity
         /\ last.n = Len(last.before.blk) )
       => last.out = last.before.blk
    /\ script = 1 => ringBuffer.available = 3
    /\ script = 2 => last.out = <<1, 2>> /\ ringBuffer.available = 1
    /\ script = 3 => last.ret = 9 /\ ringBuffer.available = 10
    /\ script = 4 => last.ret = 0 /\ ringBuffer.available = 10
    /\ script = 5 => last.out = <<3, 4, 5, 6, 7, 8, 9, 10, 11, 12>>

\* C3: drop-newest overflow. ring_buffer_write of n samples into a buffer
\* holding `available` unread samples returns min(n, C - available), appends
\* exactly the first that many samples of its input to the unread samples
\* and changes none of them; C + m samples (m > 0) written into an empty
\* buffer leave the first C of them, and the write returns C.
C3_DropNewest ==
    last.op = "write" =>
        /\ last.ret = Min(last.n, capacity - last.pre.rb.available)
        /\ Unread(ringBuffer) =
               Unread(last.pre.rb) \o SubSeq(last.blk, 1, last.ret)
        /\ ringBuffer.readPos = last.pre.rb.readPos
        /\ (last.pre.rb.available = 0 /\ last.n > capacity) =>
               /\ last.ret = capacity
               /\ Unread(ringBuffer) = SubSeq(last.blk, 1, capacity)

\* C4: sample accounting. (samples returned by reads) + available =
\* (sum of the counts returned by write) = (samples offered) - (samples
\* dropped); once the buffer is drained, read = offered - dropped.
C4_Accounting ==
    /\ Len(returned) + ringBuffer.available = Len(accepted)
    /\ Len(accepted) = offered - dropped
    /\ ringBuffer.available = 0 => Len(returned) = offered - dropped

\* A buffer that overflowed has been drained.
C4_Witness ==
    /\ last.op = "read"
    /\ last.ret > 0
    /\ ringBuffer.available = 0
    /\ dropped > 0
    /\ Len(returned) = offered - dropped

(***************************************************************************)
(* The backend (RtAudio's C interface), as the wrapper calls it.  st is    *)
(* the stream: [open, running, channels].  ok is whether the device and    *)
(* the system let the call succeed.                                        *)
(***************************************************************************)
\* rtaudio_open_stream: refused when a stream is already open; frames is the
\* buffer size the backend settles on.
rtaudio_open_stream(st, ch, frames, ok) ==
    IF st.open
    THEN [err |-> TRUE, stream |-> st, frames |-> frames,
          msg |-> "a stream is already open"]
    ELSE IF ~ok
    THEN [err |-> TRUE, stream |-> st, frames |-> frames,
          msg |-> "error opening the device"]
    ELSE [err |-> FALSE, frames |-> frames, msg |-> "",
          stream |-> [open |-> TRUE, running |-> FALSE, channels |-> ch]]

\* rtaudio_start_stream: an error when no stream is open, a warning when it
\* is already running; both differ from RTAUDIO_ERROR_NONE.
rtaudio_start_stream(st, ok) ==
    IF ~st.open
    THEN [err |-> TRUE, stream |-> st, msg |-> "no open stream"]
    ELSE IF st.running
    THEN [err |-> TRUE, stream |-> st, msg |-> "the stream is already running"]
    ELSE IF ~ok
    THEN [err |-> TRUE, stream |-> st, msg |-> "error starting the stream"]
    ELSE [err |-> FALSE, stream |-> [st EXCEPT !.running = TRUE], msg |-> ""]

rtaudio_stop_stream(st) == [st EXCEPT !.running = FALSE]

rtaudio_close_stream(st) == NoStream

rtaudio_is_stream_open(st) == st.open

rtaudio_is_stream_running(st) == st.running

(***************************************************************************)
(* The public operations, as functions of what they read.                  *)
(***************************************************************************)
\* (int)u for an unsigned int u: the upper half of the range is negative.
ToInt(u) == IF 2 * u >= UIntModulus THEN u - UIntModulus ELSE u

\* audio_start_recording without the test of rtaudio_start_stream's result.
audio_start_recording_nostartcheck(st, chans, msg, ch, rate, frames, openOk, startOk) ==
    IF ch = 0 \/ rate = 0
    THEN [ret |-> AUDIO_INVALID_PARAM, channels |-> chans, errorMsg |-> msg,
          stream |-> st, calls |-> <<>>]
    ELSE IF st.open \/ ~openOk
    THEN [ret |-> AUDIO_ERROR, channels |-> ch,
          errorMsg |-> IF st.open THEN "a stream is already open"
                       ELSE "error opening the device",
          stream |-> st, calls |-> <<"open">>]
    ELSE [ret |-> ToInt(frames), channels |-> ch, errorMsg |-> msg,
          stream |-> [open |-> TRUE, running |-> startOk, channels |-> ch],
          calls |-> <<"open", "start">>]

\* The test of line 178, without the test of sampleRate.
start_invalid_norate(ch, rate) == ch = 0

start_invalid(ch, rate) == ch = 0 \/ rate = 0

\* audio_start_recording without rtaudio_close_stream after a failed start.
audio_start_recording_noclose(st, chans, msg, ch, rate, frames, openOk, startOk) ==
    IF start_invalid(ch, rate)
    THEN [ret |-> AUDIO_INVALID_PARAM, channels |-> chans, errorMsg |-> msg,
          stream |-> st, calls |-> <<>>]
    ELSE LET o == rtaudio_open_stream(st, ch, frames, openOk) IN
         IF o.err
         THEN [ret |-> AUDIO_ERROR, channels |-> ch, errorMsg |-> o.msg,
               stream |-> o.stream, calls |-> <<"open">>]
         ELSE LET t == rtaudio_start_stream(o.stream, startOk) IN
              IF t.err
              THEN [ret |-> AUDIO_ERROR, channels |-> ch, errorMsg |-> t.msg,
                    stream |-> t.stream, calls |-> <<"open", "start">>]
              ELSE [ret |-> o.frames, channels |-> ch, errorMsg |-> msg,
                    stream |-> t.stream, calls |-> <<"open", "start">>]

\* audio_start_recording on a handle that is not null: st, chans and msg are
\* the handle's stream, channels and errorMsg; frames is bufferFrames as the
\* backend leaves it.  The device id only reaches the backend, whose
\* answer is openOk.
audio_start_recording(st, chans, msg, ch, rate, frames, openOk, startOk) ==
    IF start_invalid(ch, rate)
    THEN [ret |-> AUDIO_INVALID_PARAM, channels |-> chans, errorMsg |-> msg,
          stream |-> st, calls |-> <<>>]
    ELSE LET o == rtaudio_open_stream(st, ch, frames, openOk) IN
         IF o.err
         THEN [ret |-> AUDIO_ERROR, channels |-> ch, errorMsg |-> o.msg,
               stream |-> o.stream, calls |-> <<"open">>]
         ELSE LET t == rtaudio_start_stream(o.stream, startOk) IN
              IF t.err
              THEN [ret |-> AUDIO_ERROR, channels |-> ch, errorMsg |-> t.msg,
                    stream |-> rtaudio_close_stream(t.stream),
                    calls |-> <<"open", "start", "close">>]
              ELSE [ret |-> ToInt(o.frames), channels |-> ch, errorMsg |-> msg,
                    stream |-> t.stream, calls |-> <<"open", "start">>]

\* audio_stop closing the stream without asking whether one is open.
audio_stop_always_close(st) ==
    IF rtaudio_is_stream_running(st)
    THEN [stream |-> rtaudio_close_stream(rtaudio_stop_stream(st)),
          calls |-> <<"stop", "close">>]
    ELSE [stream |-> rtaudio_close_stream(st), calls |-> <<"close">>]

\* audio_stop with its two tests inverted: it leaves a running stream alone.
audio_stop_inverted(st) ==
    IF rtaudio_is_stream_running(st)
    THEN [stream |-> st, calls |-> <<>>]
    ELSE [stream |-> rtaudio_close_stream(st), calls |-> <<"close">>]

\* audio_destroy releasing the backend without closing the stream.
audio_destroy_noclose(st) == [stream |-> st, calls |-> <<"destroy">>]

\* audio_stop on a handle that is not null.
audio_stop(st) ==
    LET a == IF rtaudio_is_stream_running(st)
             THEN [stream |-> rtaudio_stop_stream(st), calls |-> <<"stop">>]
             ELSE [stream |-> st, calls |-> <<>>]
    IN  IF rtaudio_is_stream_open(a.stream)
        THEN [stream |-> rtaudio_close_stream(a.stream),
              calls |-> Append(a.calls, "close")]
        ELSE a

\* audio_destroy on a handle that is not null: the stream after it.
audio_destroy(st) ==
    IF rtaudio_is_stream_open(st)
    THEN [stream |-> rtaudio_close_stream(st), calls |-> <<"close", "destroy">>]
    ELSE [stream |-> st, calls |-> <<"destroy">>]

\* The test of line 239, without the test of maxFrames.
read_samples_invalid_nozero(dev, buf, maxFrames) == dev = "null" \/ ~buf

read_samples_invalid(dev, buf, maxFrames) ==
    dev = "null" \/ ~buf \/ maxFrames = 0

\* a / b in unsigned int: every outcome of the division.  Division by zero is
\* undefined: the process traps (x86), or goes on with 0 (ARM) or with all
\* bits set, -1 as an int (RISC-V).
UDiv(a, b) ==
    IF b = 0
    THEN {[trap |-> TRUE, value |-> 0], [trap |-> FALSE, value |-> 0],
          [trap |-> FALSE, value |-> -1]}
    ELSE {[trap |-> FALSE, value |-> a \div b]}

\* Line 244 returning samples, not frames.
read_samples_frames_nodiv(samplesRead, chans) ==
    {[trap |-> FALSE, value |-> samplesRead]}

read_samples_frames(samplesRead, chans) == UDiv(samplesRead, chans)

\* audio_read_samples past its parameter test: the ring buffer after the
\* read, the samples copied and every outcome of the return statement.
audio_read_samples(rb, chans, maxFrames) ==
    LET totalSamples == UMul(maxFrames, chans)
        r == ring_buffer_read(rb, totalSamples)
    IN  [rb |-> r.rb, out |-> r.out, samplesRead |-> r.ret,
         rets |-> read_samples_frames(r.ret, chans)]

\* What ring_buffer_write finds at data[0 .. samples-1] when the block the
\* backend delivered is input: past its end lies memory of some other value.
Memory(input, samples, g) ==
    [i \in 1 .. samples |-> IF i <= Len(input) THEN input[i] ELSE g]

\* audio_callback: present is inputBuffer != NULL.
audio_callback(rb, chans, present, input, nFrames, g) ==
    IF present
    THEN LET totalSamples == UMul(nFrames, chans)
             r == ring_buffer_write(rb, Memory(input, totalSamples, g),
                                    totalSamples)
         IN  [rb |-> r.rb, samples |-> totalSamples, written |-> r.ret, ret |-> 0]
    ELSE [rb |-> rb, samples |-> 0, written |-> 0, ret |-> 0]

\* audio_is_running answering from the open stream, not the running one.
audio_is_running_open(dev, st) ==
    IF dev = "null" THEN 0
    ELSE IF rtaudio_is_stream_open(st) THEN 1 ELSE 0

audio_is_running(dev, st) ==
    IF dev = "null" THEN 0
    ELSE IF rtaudio_is_stream_running(st) THEN 1 ELSE 0

audio_error_message(dev, msg) ==
    IF dev = "null" THEN "Invalid device"
    ELSE IF msg # "" THEN msg ELSE "No error"

(***************************************************************************)
(* DevSpec: the public operations and the callback, each call atomic.      *)
(***************************************************************************)
DevCall(op, dev, a, ret, out, calls) ==
    [Call(op, dev, a, ret, out, calls) EXCEPT !.before = NoBefore]

\* The pointers a caller passes: NULL or the handle; no call follows audio_destroy.
Devs == IF handle = "live" THEN {"null", "live"} ELSE {}

BufferSizes == {2}
\* The buffer sizes the backend settles on when asked for bufferFrames.
EffectiveSizes(bufferFrames) == {bufferFrames, 2 * bufferFrames}

DevInit == \E g \in Garbage : Created(SmallCapacity, g)

RingUnchanged == UNCHANGED <<capacity, ringBuffer, accepted, returned, offered,
                             dropped, script, wr, rd, capture>>

StartRecording(dev, ch, rate, bufferFrames, frames, openOk, startOk) ==
    /\ ~crashed
    /\ IF dev = "null"
       THEN /\ last' = DevCall("start", dev,
                               [NoArgs EXCEPT !.ch = ch, !.rate = rate,
                                              !.n = bufferFrames],
                               AUDIO_ERROR, <<>>, <<>>)
            /\ UNCHANGED <<channels, errorMsg, stream, started>>
       ELSE LET r == audio_start_recording(stream, channels, errorMsg, ch,
                                           rate, frames, openOk, startOk)
            IN  /\ channels' = r.channels
                /\ errorMsg' = r.errorMsg
                /\ stream' = r.stream
                /\ started' = (started \/ r.ret >= 0)
                /\ last' = DevCall("start", dev,
                                   [NoArgs EXCEPT !.ch = ch, !.rate = rate,
                                                  !.n = bufferFrames],
                                   r.ret, <<>>, r.calls)
    /\ UNCHANGED <<handle, crashed>>
    /\ RingUnchanged

Stop(dev) ==
    /\ ~crashed
    /\ IF dev = "null"
       THEN /\ last' = DevCall("stop", dev, NoArgs, 0, <<>>, <<>>)
            /\ UNCHANGED stream
       ELSE LET r == audio_stop(stream)
            IN  /\ stream' = r.stream
                /\ last' = DevCall("stop", dev, NoArgs, 0, <<>>, r.calls)
    /\ UNCHANGED <<handle, channels, errorMsg, started, crashed>>
    /\ RingUnchanged

Destroy(dev) ==
    /\ ~crashed
    /\ IF dev = "null"
       THEN /\ last' = DevCall("destroy", dev, NoArgs, 0, <<>>, <<>>)
            /\ UNCHANGED <<stream, handle>>
       ELSE LET r == audio_destroy(stream)
            IN  /\ stream' = r.stream
                /\ handle' = "freed"
                /\ last' = DevCall("destroy", dev, NoArgs, 0, <<>>, r.calls)
    /\ UNCHANGED <<channels, errorMsg, started, crashed>>
    /\ RingUnchanged

IsRunning(dev) ==
    /\ ~crashed
    /\ last' = DevCall("is_running", dev, NoArgs,
                       audio_is_running(dev, stream), <<>>, <<>>)
    /\ UNCHANGED <<handle, channels, errorMsg, stream, started, crashed>>
    /\ RingUnchanged

ErrorMessage(dev) ==
    /\ ~crashed
    /\ last' = DevCall("error_message", dev, NoArgs,
                       audio_error_message(dev, errorMsg), <<>>, <<>>)
    /\ UNCHANGED <<handle, channels, errorMsg, stream, started, crashed>>
    /\ RingUnchanged

ReadSamples(dev, buf, maxFrames) ==
    /\ ~crashed
    /\ IF read_samples_invalid(dev, buf, maxFrames)
       THEN /\ last' = DevCall("read_samples", dev,
                               [NoArgs EXCEPT !.buf = buf, !.n = maxFrames],
                               AUDIO_INVALID_PARAM, <<>>, <<>>)
            /\ UNCHANGED <<ringBuffer, returned, crashed>>
       ELSE LET r == audio_read_samples(ringBuffer, channels, maxFrames)
            IN  \E q \in r.rets :
                    /\ ringBuffer' = r.rb
                    /\ returned' = returned \o r.out
                    /\ crashed' = q.trap
                    /\ last' = DevCall("read_samples", dev,
                                       [NoArgs EXCEPT !.buf = buf,
                                                      !.n = maxFrames],
                                       q.value, r.out, <<>>)
    /\ UNCHANGED <<capacity, handle, channels, errorMsg, stream, started,
                   accepted, offered, dropped, script, wr, rd, capture>>

\* The backend calls audio_callback while the stream runs, with a block of
\* nFrames frames of the stream's channels, or with no input block.
Callback(present, nFrames, g) ==
    LET input == Fresh(nFrames * stream.channels)
        r == audio_callback(ringBuffer, channels, present, input, nFrames, g)
    IN  /\ ~crashed
        /\ handle = "live"
        /\ stream.running
        /\ offered + r.samples <= MaxDelivered
        /\ ringBuffer' = r.rb
        /\ accepted' = accepted \o SubSeq(Memory(input, r.samples, g), 1, r.written)
        /\ offered' = offered + r.samples
        /\ dropped' = dropped + (r.samples - r.written)
        /\ last' = DevCall("callback", "live",
                           [NoArgs EXCEPT !.buf = present, !.n = nFrames,
                                          !.blk = input],
                           r.ret, <<>>, <<>>)
        /\ UNCHANGED <<capacity, handle, channels, errorMsg, stream, started,
                       crashed, returned, script, wr, rd, capture>>

\* The backend ends the stream on its own (the device is unplugged).
DeviceLost ==
    /\ ~crashed
    /\ handle = "live"
    /\ stream.open
    /\ stream.running
    /\ stream' = [stream EXCEPT !.running = FALSE]
    /\ last' = DevCall("device_lost", "none", NoArgs, 0, <<>>, <<>>)
    /\ UNCHANGED <<handle, channels, errorMsg, started, crashed>>
    /\ RingUnchanged

FrameCounts == 0 .. MaxFrames \cup {UIntModulus \div 2, UIntModulus - 1}

\* The calls of audio_start_recording: <<dev, channels, sampleRate,
\* bufferFrames, frames, open succeeds, start succeeds>>.  The backend's
\* answers vary only where the call reaches the backend.
StartCalls ==
    {<<"live", ch, 48000, b, f, TRUE, TRUE>> :
         ch \in 1 .. MaxChannels, b \in BufferSizes,
         f \in UNION {EffectiveSizes(bb) : bb \in BufferSizes}}
    \cup {<<"live", ch, 48000, b, b, ok[1], ok[2]>> :
              ch \in 1 .. MaxChannels, b \in BufferSizes,
              ok \in {<<TRUE, FALSE>>, <<FALSE, TRUE>>}}
    \cup {<<"live", a[1], a[2], b, b, TRUE, TRUE>> :
              a \in {<<0, 48000>>, <<1, 0>>, <<0, 0>>}, b \in BufferSizes}
    \cup {<<"null", 1, 48000, b, b, TRUE, TRUE>> : b \in BufferSizes}

\* The calls of audio_read_samples: <<dev, buffer is not null, maxFrames>>.
ReadCalls ==
    {<<"live", TRUE, f>> : f \in FrameCounts}
    \cup {<<"live", FALSE, 1>>, <<"null", TRUE, 1>>}

\* The invocations of audio_callback: <<inputBuffer is not null, nFrames,
\* the value of the memory past the end of the block>>; that memory is read
\* only when nFrames * dev->channels exceeds the block.
CallbackCalls ==
    {<<TRUE, n, g>> : n \in 0 .. MaxFrames, g \in Garbage} \cup {<<FALSE, 1, 0>>}

DevNext ==
    \/ \E c \in StartCalls :
          c[1] \in Devs /\ StartRecording(c[1], c[2], c[3], c[4], c[5], c[6], c[7])
    \/ \E dev \in Devs : Stop(dev)
    \/ \E dev \in Devs : Destroy(dev)
    \/ \E dev \in Devs : IsRunning(dev)
    \/ \E dev \in Devs : ErrorMessage(dev)
    \/ \E c \in ReadCalls : c[1] \in Devs /\ ReadSamples(c[1], c[2], c[3])
    \/ \E c \in CallbackCalls :
          /\ (c[3] # 0 => UMul(c[2], channels) > c[2] * stream.channels)
          /\ Callback(c[1], c[2], c[3])
    \/ DeviceLost

DevSpec == DevInit /\ [][DevNext]_vars

(***************************************************************************)
(* Claims about the public operations, checked under DevSpec.              *)
(***************************************************************************)
\* The last call was audio_read_samples past its parameter test.
ReadPastTest ==
    /\ last.op = "read_samples"
    /\ last.dev = "live"
    /\ last.buf
    /\ last.n > 0

\* C6: frame/sample conversion. On a handle with channels = c > 0,
\* audio_read_samples with maxFrames = f > 0 returns r with 0 <= r <= f,
\* removes at most f * c samples from the ring buffer, and r * c is at most
\* the number of samples removed (maxFrames * channels being computed in
\* unsigned int).
C6_FrameConversion ==
    (ReadPastTest /\ last.pre.channels > 0) =>
        LET removed == last.pre.rb.available - ringBuffer.available IN
        /\ ~crashed
        /\ 0 <= last.ret
        /\ last.ret <= last.n
        /\ removed = Len(last.out)
        /\ removed <= last.n * last.pre.channels
        /\ last.ret * last.pre.channels <= removed

\* maxFrames * channels wrapped around, and the read returned a frame and
\* removed part of another.
C6_Witness ==
    /\ ReadPastTest
    /\ last.pre.channels > 1
    /\ last.n * last.pre.channels >= UIntModulus
    /\ last.ret >= 1
    /\ last.ret * last.pre.channels < Len(last.out)

\* C7: audio_read_samples on a handle whose channels is 0, with a buffer
\* and maxFrames > 0, returns a negative error code and does not divide by
\* zero.
C7_ZeroChannelsFails ==
    (ReadPastTest /\ last.pre.channels = 0) =>
        /\ ~crashed
        /\ last.ret < 0

\* C8: audio_read_samples returns AUDIO_INVALID_PARAM when the handle is
\* null, the buffer is null or maxFrames is 0, and then leaves the ring
\* buffer as it was.
C8_ReadInvalidParam ==
    ( /\ last.op = "read_samples"
      /\ (last.dev = "null" \/ ~last.buf \/ last.n = 0) )
    => /\ last.ret = AUDIO_INVALID_PARAM
       /\ ringBuffer = last.pre.rb
       /\ last.out = <<>>
       /\ ~crashed

\* audio_read_samples was called with maxFrames = 0 while samples were unread.
C8_Witness ==
    /\ last.op = "read_samples"
    /\ last.dev = "live"
    /\ last.buf
    /\ last.n = 0
    /\ last.ret = AUDIO_INVALID_PARAM
    /\ ringBuffer.available > 0

\* C9: audio_start_recording on a valid handle with channels = 0 or
\* sampleRate = 0 returns AUDIO_INVALID_PARAM and changes nothing: not the
\* lifecycle state, channels, the ring buffer, errorMsg or the stream, and
\* it calls the backend for nothing.
C9_StartInvalidParam ==
    ( /\ last.op = "start"
      /\ last.dev = "live"
      /\ (last.ch = 0 \/ last.rate = 0) )
    => /\ last.ret = AUDIO_INVALID_PARAM
       /\ Snapshot = last.pre
       /\ last.calls = <<>>

\* audio_start_recording was called with channels = 0 on a running handle
\* whose channels is not 0.
C9_Witness ==
    /\ last.op = "start"
    /\ last.dev = "live"
    /\ last.ch = 0
    /\ last.ret = AUDIO_INVALID_PARAM
    /\ channels > 0
    /\ State = "StreamOpenAndRunning"

\* C10: when audio_start_recording, called in state Created or Stopped,
\* fails on the backend's open or start, the handle keeps its lifecycle
\* state and no stream is open; when open succeeded and start failed the
\* stream was closed before the return.
C10_FailedStartLeavesNoStream ==
    ( /\ last.op = "start"
      /\ last.dev = "live"
      /\ last.pre.state \in {"Created", "Stopped"}
      /\ last.ret = AUDIO_ERROR )
    => /\ State = last.pre.state
       /\ ~stream.open
       /\ ~stream.running
       /\ last.calls \in {<<"open">>, <<"open", "start", "close">>}

\* Open succeeded, start failed and the stream was closed, on a handle that
\* had been stopped.
C10_Witness ==
    /\ last.op = "start"
    /\ last.ret = AUDIO_ERROR
    /\ last.pre.state = "Stopped"
    /\ last.calls = <<"open", "start", "close">>
    /\ State = "Stopped"

(***************************************************************************)
(* ConcSpec: a running stream; the audio thread runs audio_callback and    *)
(* the application thread runs audio_read_samples, with no lock.  A step   *)
(* is one load or store of available, writePos, readPos or data[], with    *)
(* the thread's own work up to it.  wr and rd hold each thread's position  *)
(* and locals: tmp is the value of available loaded by available++ or      *)
(* available--.  Between two reads the application thread may stop the     *)
(* stream, start it again, or destroy the handle; each of these calls is   *)
(* one step, taken when the backend lets it return.                        *)
(***************************************************************************)
ConcInit ==
    \E ch \in 1 .. MaxChannels, g \in Garbage :
        /\ capacity = SmallCapacity
        /\ ringBuffer = ring_buffer_init(g)
        /\ handle = "live"
        /\ channels = ch
        /\ errorMsg = ""
        /\ stream = [open |-> TRUE, running |-> TRUE, channels |-> ch]
        /\ started = TRUE
        /\ crashed = FALSE
        /\ accepted = <<>>
        /\ returned = <<>>
        /\ offered = 0
        /\ dropped = 0
        /\ script = 0
        /\ wr = WrIdle
        /\ rd = RdIdle
        /\ capture = NoCapture
        /\ last = [op |-> "start", dev |-> "live", buf |-> FALSE, n |-> 2,
                   blk |-> <<>>, ch |-> ch, rate |-> 48000,
                   ret |-> 2, out |-> <<>>, calls |-> <<"open", "start">>,
                   pre |-> [rb |-> ringBuffer, channels |-> 0, errorMsg |-> "",
                            stream |-> NoStream, state |-> "Created"],
                   before |-> NoBefore]

ConcFrame == UNCHANGED <<capacity, handle, channels, errorMsg, stream, started,
                         crashed, last, script, capture>>

\* audio_callback up to the call of ring_buffer_write (lines 118-123, 92).
CbEnter(present, nFrames, g) ==
    LET input == Fresh(nFrames * stream.channels)
        totalSamples == UMul(nFrames, channels)
    IN  /\ wr.pc = "idle"
        /\ stream.running
        /\ offered + totalSamples <= MaxDelivered
        /\ IF present
           THEN /\ wr' = [pc |-> "w_test", data |-> Memory(input, totalSamples, g),
                          samples |-> totalSamples, written |-> 0, tmp |-> 0]
                /\ offered' = offered + totalSamples
           ELSE UNCHANGED <<wr, offered>>
        /\ UNCHANGED <<ringBuffer, accepted, returned, dropped, rd>>
        /\ ConcFrame

\* Line 93: the loop test, which loads available.
W_Test ==
    /\ wr.pc = "w_test"
    /\ wr' = [wr EXCEPT !.pc = IF /\ wr.written < wr.samples
                                  /\ ringBuffer.available < capacity
                               THEN "w_data" ELSE "w_ret"]
    /\ UNCHANGED <<ringBuffer, accepted, returned, offered, dropped, rd>>
    /\ ConcFrame

\* Line 94: the store to data[writePos].
W_Data ==
    /\ wr.pc = "w_data"
    /\ ringBuffer' = [ringBuffer EXCEPT
                          !.data[ringBuffer.writePos] = wr.data[wr.written + 1]]
    /\ accepted' = Append(accepted, wr.data[wr.written + 1])
    /\ wr' = [wr EXCEPT !.pc = "w_pos"]
    /\ UNCHANGED <<returned, offered, dropped, rd>>
    /\ ConcFrame

\* Line 95: the store to writePos.
W_Pos ==
    /\ wr.pc = "w_pos"
    /\ ringBuffer' = [ringBuffer EXCEPT
                          !.writePos = ModRingBufferSize(ringBuffer.writePos + 1)]
    /\ wr' = [wr EXCEPT !.pc = "w_load"]
    /\ UNCHANGED <<accepted, returned, offered, dropped, rd>>
    /\ ConcFrame

\* Line 96, available++: the load.
W_Load ==
    /\ wr.pc = "w_load"
    /\ wr' = [wr EXCEPT !.pc = "w_store", !.tmp = ringBuffer.available]
    /\ UNCHANGED <<ringBuffer, accepted, returned, offered, dropped, rd>>
    /\ ConcFrame

\* Line 96, available++: the store; line 97.
W_Store ==
    /\ wr.pc = "w_store"
    /\ ringBuffer' = [ringBuffer EXCEPT !.available = UInc(wr.tmp)]
    /\ wr' = [wr EXCEPT !.pc = "w_test", !.written = wr.written + 1]
    /\ UNCHANGED <<accepted, returned, offered, dropped, rd>>
    /\ ConcFrame

\* Lines 99 and 126: ring_buffer_write and audio_callback return.
W_Ret ==
    /\ wr.pc = "w_ret"
    /\ dropped' = dropped + (wr.samples - wr.written)
    /\ wr' = WrIdle
    /\ UNCHANGED <<ringBuffer, accepted, returned, offered, rd>>
    /\ ConcFrame

\* audio_read_samples, with a buffer and maxFrames > 0, up to the call of
\* ring_buffer_read (lines 239-242, 104).
RsEnter(maxFrames) ==
    /\ rd.pc = "idle"
    /\ handle = "live"
    /\ maxFrames > 0
    /\ rd' = [pc |-> "r_test", out |-> <<>>, samples |-> UMul(maxFrames, channels),
              read |-> 0, tmp |-> 0, frames |-> 0]
    /\ UNCHANGED <<ringBuffer, accepted, returned, offered, dropped, wr>>
    /\ ConcFrame

\* Line 105: the loop test, which loads available.
R_Test ==
    /\ rd.pc = "r_test"
    /\ rd' = [rd EXCEPT !.pc = IF /\ rd.read < rd.samples
                                  /\ ringBuffer.available > 0
                               THEN "r_data" ELSE "r_ret"]
    /\ UNCHANGED <<ringBuffer, accepted, returned, offered, dropped, wr>>
    /\ ConcFrame

\* Line 106: the load of data[readPos].
R_Data ==
    /\ rd.pc = "r_data"
    /\ rd' = [rd EXCEPT !.pc = "r_pos",
                        !.out = Append(rd.out, ringBuffer.data[ringBuffer.readPos])]
    /\ returned' = Append(returned, ringBuffer.data[ringBuffer.readPos])
    /\ UNCHANGED <<ringBuffer, accepted, offered, dropped, wr>>
    /\ ConcFrame

\* Line 107: the store to readPos.
R_Pos ==
    /\ rd.pc = "r_pos"
    /\ ringBuffer' = [ringBuffer EXCEPT
                          !.readPos = ModRingBufferSize(ringBuffer.readPos + 1)]
    /\ rd' = [rd EXCEPT !.pc = "r_load"]
    /\ UNCHANGED <<accepted, returned, offered, dropped, wr>>
    /\ ConcFrame

\* Line 108, available--: the load.
R_Load ==
    /\ rd.pc = "r_load"
    /\ rd' = [rd EXCEPT !.pc = "r_store", !.tmp = ringBuffer.available]
    /\ UNCHANGED <<ringBuffer, accepted, returned, offered, dropped, wr>>
    /\ ConcFrame

\* Line 108, available--: the store; line 109.
R_Store ==
    /\ rd.pc = "r_store"
    /\ ringBuffer' = [ringBuffer EXCEPT !.available = UDec(rd.tmp)]
    /\ rd' = [rd EXCEPT !.pc = "r_test", !.read = rd.read + 1]
    /\ UNCHANGED <<accepted, returned, offered, dropped, wr>>
    /\ ConcFrame

\* Lines 111 and 244: ring_buffer_read and audio_read_samples return
\* (channels is not 0 while a stream runs).
R_Ret ==
    /\ rd.pc = "r_ret"
    /\ rd' = [RdIdle EXCEPT !.frames = rd.read \div channels]
    /\ UNCHANGED <<ringBuffer, accepted, returned, offered, dropped, wr>>
    /\ ConcFrame

\* The backend's stop and close return once no callback is in flight.
CallbackJoined == wr.pc = "idle"

ConcRing == UNCHANGED <<capacity, ringBuffer, accepted, returned, offered,
                        dropped, script, wr, rd, crashed, capture>>

\* The application thread calls audio_stop, between two reads, on the handle
\* whose stream is open.
ConcStop ==
    LET r == audio_stop(stream)
    IN  /\ rd.pc = "idle"
        /\ handle = "live"
        /\ rtaudio_is_stream_open(stream)
        /\ r.calls # <<>> => CallbackJoined
        /\ stream' = r.stream
        /\ last' = DevCall("stop", "live", NoArgs, 0, <<>>, r.calls)
        /\ UNCHANGED <<handle, channels, errorMsg, started>>
        /\ ConcRing

\* The application thread calls audio_destroy between two reads.
ConcDestroy ==
    LET r == audio_destroy(stream)
    IN  /\ rd.pc = "idle"
        /\ handle = "live"
        /\ Len(r.calls) > 1 => CallbackJoined
        /\ stream' = r.stream
        /\ handle' = "freed"
        /\ last' = DevCall("destroy", "live", NoArgs, 0, <<>>, r.calls)
        /\ UNCHANGED <<channels, errorMsg, started>>
        /\ ConcRing

\* The application thread starts recording again on the stopped handle, with
\* the channels it had, and the device works.
ConcStart(ch, frames) ==
    LET r == audio_start_recording(stream, channels, errorMsg, ch, 48000,
                                   frames, TRUE, TRUE)
    IN  /\ rd.pc = "idle"
        /\ handle = "live"
        /\ ~stream.open
        /\ ch = channels
        /\ channels' = r.channels
        /\ errorMsg' = r.errorMsg
        /\ stream' = r.stream
        /\ started' = (started \/ r.ret >= 0)
        /\ last' = DevCall("start", "live",
                           [NoArgs EXCEPT !.ch = ch, !.rate = 48000, !.n = frames],
                           r.ret, <<>>, r.calls)
        /\ UNCHANGED handle
        /\ ConcRing

ConcNext ==
    \/ \E present \in BOOLEAN, nFrames \in 0 .. MaxFrames, g \in Garbage :
          CbEnter(present, nFrames, g)
    \/ W_Test
    \/ W_Data
    \/ W_Pos
    \/ W_Load
    \/ W_Store
    \/ W_Ret
    \/ \E maxFrames \in 1 .. MaxFrames : RsEnter(maxFrames)
    \/ R_Test
    \/ R_Data
    \/ R_Pos
    \/ R_Load
    \/ R_Store
    \/ R_Ret
    \/ ConcStop
    \/ ConcDestroy
    \/ \E ch \in 1 .. MaxChannels, frames \in BufferSizes : ConcStart(ch, frames)

ConcSpec == ConcInit /\ [][ConcNext]_vars

\* C5: one audio_callback and one audio_read_samples running concurrently,
\* interleaved at the loads and stores of the ring buffer's fields, keep
\* 0 <= available <= C; available = (samples accepted) - (samples returned)
\* once both calls have finished; and the samples read are a prefix, in
\* order, of the samples accepted.
C5_SpscSafe ==
    /\ 0 <= ringBuffer.available
    /\ ringBuffer.available <= capacity
    /\ (wr.pc = "idle" /\ rd.pc = "idle") =>
           ringBuffer.available = Len(accepted) - Len(returned)
    /\ IsPrefix(returned, accepted)

\* The parts of C5, each on its own.
C5_AvailableInRange ==
    0 <= ringBuffer.available /\ ringBuffer.available <= capacity

C5_ReadIsPrefix == IsPrefix(returned, accepted)

(***************************************************************************)
(* Further claims about the public operations, checked under DevSpec.      *)
(***************************************************************************)
\* The last call was audio_start_recording on the handle.
StartOnHandle == last.op = "start" /\ last.dev = "live"

StopOnHandle == last.op = "stop" /\ last.dev = "live"

\* C12: audio_stop is idempotent. On a handle that was never started, or
\* that was stopped before, it changes nothing: the state stays Created or
\* Stopped, the ring buffer, channels and the error message are as before,
\* and no backend stop or close is issued; and every audio_stop leaves a
\* handle on which the next audio_stop is such a call.
C12_StopIdempotent ==
    /\ (StopOnHandle /\ last.pre.state \in {"Created", "Stopped"}) =>
           /\ last.calls = <<>>
           /\ Snapshot = last.pre
           /\ ~crashed
    /\ StopOnHandle => State \in {"Created", "Stopped"}
    /\ StopOnHandle => (~rtaudio_is_stream_running(last.pre.stream) =>
                            \A i \in 1..Len(last.calls) : last.calls[i] # "stop")
    /\ StopOnHandle => (~rtaudio_is_stream_open(last.pre.stream) =>
                            \A i \in 1..Len(last.calls) : last.calls[i] # "close")

\* audio_stop was called on a stopped handle that holds unread samples.
C12_Witness ==
    /\ StopOnHandle
    /\ last.pre.state = "Stopped"
    /\ last.calls = <<>>
    /\ ringBuffer.available > 0

\* C13: audio_stop on a running handle leaves it Stopped, the stream stopped
\* and then closed, and the ring buffer untouched; audio_start_recording does
\* not touch the ring buffer either; so the samples accepted and not yet read
\* are what audio_read_samples copies out next, oldest first, whatever stops
\* and starts come between.
C13_StopKeepsSamples ==
    /\ (StopOnHandle /\ last.pre.state = "StreamOpenAndRunning") =>
           /\ State = "Stopped"
           /\ ~stream.open /\ ~stream.running
           /\ last.calls = <<"stop", "close">>
           /\ ringBuffer = last.pre.rb
    /\ StartOnHandle => ringBuffer = last.pre.rb
    /\ accepted = returned \o Unread(ringBuffer)
    /\ (ReadPastTest /\ last.pre.channels > 0) =>
           Unread(last.pre.rb) = last.out \o Unread(ringBuffer)

\* C14: audio_destroy on a handle leaves it Destroyed whatever state it was
\* in; a stream that is open is closed before the backend instance is
\* released, so no stream is open afterwards; audio_destroy on the null
\* handle does nothing.
C14_DestroyCloses ==
    /\ (last.op = "destroy" /\ last.dev = "live") =>
           /\ State = "Destroyed"
           /\ handle = "freed"
           /\ ~stream.open /\ ~stream.running
           /\ last.calls = IF last.pre.stream.open THEN <<"close", "destroy">>
                           ELSE <<"destroy">>
    /\ (last.op = "destroy" /\ last.dev = "null") =>
           /\ last.calls = <<>>
           /\ handle = "live"
           /\ Snapshot = last.pre

\* A handle with a running stream was destroyed.
C14_Witness ==
    /\ last.op = "destroy"
    /\ last.dev = "live"
    /\ last.pre.state = "StreamOpenAndRunning"
    /\ State = "Destroyed"

\* C15: audio_is_running returns non-zero exactly when the backend reports
\* the stream running: 0 after the backend ended the stream on its own, and
\* 0 for the null handle.
C15_IsRunningIsBackend ==
    last.op = "is_running" =>
        /\ (last.ret # 0) <=> (last.dev = "live" /\ rtaudio_is_stream_running(stream))
        /\ last.pre.state = "StreamOpenNotRunning" => last.ret = 0
        /\ last.dev = "null" => last.ret = 0
        /\ Snapshot = last.pre

\* audio_is_running was asked about a stream the backend had ended.
C15_Witness ==
    /\ last.op = "is_running"
    /\ last.dev = "live"
    /\ last.pre.state = "StreamOpenNotRunning"
    /\ last.ret = 0

\* C16: the error message is cleared on success and set on failure: when
\* the most recent audio_start_recording on the handle succeeded,
\* audio_error_message returns "No error", and when it failed,
\* audio_error_message returns a diagnostic of that failure.  No other
\* operation writes the message, so what audio_error_message returns after
\* the start is what it returns until the next start.
C16_ErrorFollowsLastStart ==
    StartOnHandle =>
        /\ last.ret >= 0 => audio_error_message("live", errorMsg) = "No error"
        /\ last.ret < 0 => audio_error_message("live", errorMsg) # "No error"
        /\ last.ret < 0 => errorMsg # ""

\* C17: whole frames. Whenever audio_read_samples is called on a handle
\* with channels > 0, the number of unread samples is a multiple of channels,
\* and the read removes whole frames only; also after a callback that
\* overflowed the buffer and after a restart with another channel count.
C17_WholeFrames ==
    (ReadPastTest /\ last.pre.channels > 0) =>
        /\ last.pre.rb.available % last.pre.channels = 0
        /\ Len(last.out) % last.pre.channels = 0
        /\ Len(last.out) = last.ret * last.pre.channels

\* C20: while a stream is open and running, channels of the handle is the
\* channel count the stream was opened with, whatever was called since,
\* a failing audio_start_recording included.
C20_ChannelsOfRunningStream ==
    (rtaudio_is_stream_open(stream) /\ rtaudio_is_stream_running(stream)) =>
        channels = stream.channels

\* The last audio_start_recording failed because the device could not be
\* opened or started, as opposed to the state the handle was in.
DeviceFailed ==
    /\ last.ret < 0
    /\ errorMsg \in {"error opening the device", "error starting the stream"}

\* C19: reconnect after the loss of the device. When the backend ended the
\* stream on its own (not running, not closed by the application) and
\* audio_start_recording is then called on the handle, without audio_stop
\* before it, with channels > 0 and sampleRate > 0 and a device that works,
\* the call succeeds and the stream is running.
C19_ReconnectWithoutStop ==
    (/\ StartOnHandle
     /\ last.pre.state = "StreamOpenNotRunning"
     /\ ~start_invalid(last.ch, last.rate)
     /\ ~DeviceFailed) =>
        /\ last.ret >= 0
        /\ State = "StreamOpenAndRunning"

(***************************************************************************)
(* The end of a stream, checked under ConcSpec, where a callback can be in *)
(* flight when the application stops or destroys the handle.               *)
(***************************************************************************)
\* C18: close is the synchronization point. Once audio_stop or
\* audio_destroy has returned, no stream is open, no audio_callback is in
\* flight and none writes to the ring buffer: until the next
\* audio_start_recording, writePos is the one at the return and available
\* is at most the one at the return; and after audio_destroy nothing reads or
\* writes the ring buffer.
C18_CloseSynchronizes ==
    /\ (last.op \in {"stop", "destroy"} /\ last.dev = "live") =>
           /\ ~rtaudio_is_stream_open(stream)
           /\ ~rtaudio_is_stream_running(stream)
           /\ wr.pc = "idle"
           /\ ringBuffer.writePos = last.pre.rb.writePos
           /\ ringBuffer.available <= last.pre.rb.available
    /\ handle = "freed" =>
           /\ last.op = "destroy"
           /\ wr.pc = "idle"
           /\ rd.pc = "idle"
           /\ ringBuffer = last.pre.rb

\* A running stream that had filled the ring buffer was stopped, and samples
\* were read after the stop.
C18_Witness ==
    /\ last.op = "stop"
    /\ last.pre.state = "StreamOpenAndRunning"
    /\ last.calls = <<"stop", "close">>
    /\ last.pre.rb.available = capacity
    /\ ringBuffer.available < last.pre.rb.available

(***************************************************************************)
(* The callback bridge, checked under DevSpec.                             *)
(***************************************************************************)
\* The last step was an invocation of audio_callback.
CallbackDone == last.op = "callback"

\* The number of samples C21 has an invocation with an input block append.
BridgeCount ==
    Min(last.n * last.pre.channels, capacity - last.pre.rb.available)

\* C21: the callback bridge. An invocation of audio_callback with an input
\* block appends min(nFrames * channels, C - available) samples to the ring
\* buffer, and they are the first samples of that block; an invocation with
\* no input block leaves the ring buffer unchanged; every invocation returns
\* 0, the continue signal, also when samples were dropped.
C21_CallbackBridge ==
    CallbackDone =>
        /\ last.ret = 0
        /\ ~last.buf => ringBuffer = last.pre.rb
        /\ last.buf =>
               /\ ringBuffer.available = last.pre.rb.available + BridgeCount
               /\ ringBuffer.readPos = last.pre.rb.readPos
               /\ BridgeCount <= Len(last.blk)
               /\ Unread(ringBuffer) =
                      Unread(last.pre.rb) \o SubSeq(last.blk, 1, BridgeCount)

(***************************************************************************)
(* The cursors of the ring buffer, checked under SeqSpec.                  *)
(***************************************************************************)
\* C22: the cursors. After any sequence of ring_buffer_write and
\* ring_buffer_read calls, one at a time, from ring_buffer_init on, writePos
\* and readPos lie in 0 .. C-1 and writePos = (readPos + available) mod C; a
\* write leaves readPos as it was and a read leaves writePos as it was.
C22_Cursors ==
    /\ ringBuffer.writePos \in 0 .. capacity - 1
    /\ ringBuffer.readPos \in 0 .. capacity - 1
    /\ ringBuffer.writePos = (ringBuffer.readPos + ringBuffer.available) % capacity
    /\ last.op = "write" => ringBuffer.readPos = last.pre.rb.readPos
    /\ last.op = "read" => ringBuffer.writePos = last.pre.rb.writePos

(***************************************************************************)
(* CapSpec: the recorder programs.  main fills InputData and starts a      *)
(* stream whose block size the backend has settled on; the backend then    *)
(* invokes the callback with blocks of that size until it returns 2.       *)
(***************************************************************************)
Recorders == {"microphone.c", "microphone.cpp"}

\* main up to the start of the stream.  microphone.c computes bufferBytes
\* from the block size it asks for, before rtaudio_open_stream adjusts it;
\* microphone.cpp computes it after openStream, from the adjusted size.
main(prog, ch, total, streamFrames) ==
    [NoCapture EXCEPT
         !.prog = prog,
         !.channels = ch,
         !.totalFrames = total,
         !.frameCounter = 0,
         !.bufferBytes = (IF prog = "microphone.c" THEN RequestedFrames
                          ELSE streamFrames) * ch * SampleBytes,
         !.blockFrames = streamFrames,
         !.running = TRUE]

\* input_callback of microphone.c and input of microphone.cpp, which are the
\* same code: the fields it writes, where memcpy writes (offset, in samples
\* from the start of buffer), how many samples memcpy copies, and the value
\* returned.
input_callback(d, nBufferFrames) ==
    LET over == d.frameCounter + nBufferFrames > d.totalFrames
        frames == IF over THEN d.totalFrames - d.frameCounter ELSE nBufferFrames
        bytes == IF over THEN frames * d.channels * SampleBytes ELSE d.bufferBytes
        counter == d.frameCounter + frames
    IN  [bufferBytes |-> bytes,
         frameCounter |-> counter,
         offset |-> d.frameCounter * d.channels,
         copied |-> bytes \div SampleBytes,
         ret |-> IF counter >= d.totalFrames THEN 2 ELSE 0]

CapInit == Created(SmallCapacity, 0)

CapFrame == UNCHANGED <<capacity, ringBuffer, handle, channels, errorMsg, stream,
                        started, last, accepted, returned, offered, dropped,
                        script, wr, rd>>

CapStart(prog, ch, total, streamFrames) ==
    /\ capture.prog = "none"
    /\ capture' = main(prog, ch, total, streamFrames)
    /\ UNCHANGED crashed
    /\ CapFrame

\* The backend invokes the callback with a block of the stream's size.  A
\* memcpy that reads past the block or writes past the end of buffer is
\* undefined: the program goes on, or is killed.
CapCallback ==
    LET n == capture.blockFrames
        r == input_callback(capture, n)
        wild == \/ r.copied > n * capture.channels
                \/ r.offset + r.copied > capture.totalFrames * capture.channels
    IN  /\ capture.running
        /\ ~crashed
        /\ capture' = [capture EXCEPT !.bufferBytes = r.bufferBytes,
                                      !.frameCounter = r.frameCounter,
                                      !.running = (r.ret = 0),
                                      !.calls = capture.calls + 1,
                                      !.n = n,
                                      !.before = capture.frameCounter,
                                      !.offset = r.offset,
                                      !.copied = r.copied,
                                      !.ret = r.ret]
        /\ crashed' \in (IF wild THEN BOOLEAN ELSE {FALSE})
        /\ CapFrame

CapNext ==
    \/ \E prog \in Recorders, ch \in 1 .. MaxChannels, total \in 0 .. MaxTotalFrames,
          streamFrames \in 1 .. MaxStreamFrames :
          CapStart(prog, ch, total, streamFrames)
    \/ CapCallback

CapSpec == CapInit /\ [][CapNext]_vars

\* C23: the fixed-duration capture callback. After every invocation, with
\* whatever block size the backend delivers, frameCounter is at most
\* totalFrames; the invocation copied min(nBufferFrames, totalFrames -
\* frameCounter) frames, all of them inside the buffer of totalFrames *
\* channels samples; and it returned 2 exactly when frameCounter has reached
\* totalFrames, and 0 otherwise.
C23_FixedDurationCapture ==
    capture.calls > 0 =>
        /\ capture.frameCounter <= capture.totalFrames
        /\ capture.copied =
               Min(capture.n, capture.totalFrames - capture.before) * capture.channels
        /\ capture.offset + capture.copied <= capture.totalFrames * capture.channels
        /\ capture.ret = 2 <=> capture.frameCounter = capture.totalFrames
        /\ capture.ret = 0 <=> capture.frameCounter < capture.totalFrames
        /\ ~crashed

====
